---- MODULE Spec2Model ----
(***************************************************************************)
(* git2dot: the commit graph pipeline of src/git2dot/git2dot.py.           *)
(*                                                                         *)
(* main(opts) runs parse(opts) and then gendot(opts).  parse reads the     *)
(* record lines one by one into the class-level registries Node.m_list and *)
(* Node.m_map, then runs prune_by_date, prune_by_choice, the children      *)
(* derivation, Node.squash and the sort by date.  Every one of these is an *)
(* action below; pc is the position of the single thread of control.       *)
(*                                                                         *)
(* A node is identified by its commit id (git prints every commit once, so *)
(* the ids of one log are unique); a reference to a Node object is its id. *)
(* Python's None is the value None, a sys.exit(1) ends in pc = "exit" and  *)
(* an uncaught exception ends in pc = "crash" with err naming it.          *)
(***************************************************************************)
EXTENDS Integers, Sequences, FiniteSets, TLC

VARIABLES
    pc,             \* position in main/parse: the stage that runs next
    err,            \* the uncaught exception that ended the run ("" if none)
    opts,           \* the parsed command line (argparse.Namespace)
    lines,          \* parse's lines that are not parsed yet (RefsSpec; the
                    \* other specifications draw each record as it is parsed)
    m_list,         \* Node.m_list: the nodes in creation order
    m_map,          \* Node.m_map: commit id -> node
    node,           \* the fields of every live Node object, by node
    m_list_bydate,  \* Node.m_list_bydate: commit ids sorted by date
    m_vars_usage,   \* Node.m_vars_usage: [var, cids] in insertion order
    dot,            \* what gendot returned: <<>> before, <<graph>> after
    log             \* the messages handed to the logger, in order

vars == <<pc, err, opts, lines, m_vars_usage, m_list, m_map, node, m_list_bydate, dot, log>>

----------------------------------------------------------------------------
(* Bounds of the checked instances *)

MaxCommits == 3        \* commit ids 1..MaxCommits in Spec
MaxChainCommits == 4   \* commit ids 1..MaxChainCommits in SquashSpec, AlignSpec
MaxParents == 2        \* longest parent list of a record
NumStamps == 2         \* the first NumStamps entries of StampTable, in AlignSpec
MaxRefs == 2           \* entries of a decoration in RefsSpec
MaxBodyLines == 2      \* lines between the record and the label line in LabelSpec
MaxLabelFields == 2    \* fields of a label line in LabelSpec

(* Program constants *)

None == 0                 \* Python's None, for a node reference
UnsetChainSize == -1      \* Node.m_chain_size before squash
DEFAULT_RANGE == "--all --topo-order"

----------------------------------------------------------------------------
(* Helpers over sequences *)

Range(s) == {s[i] : i \in 1..Len(s)}

Last(s) == s[Len(s)]

EmptyMap == [x \in {} |-> None]

RECURSIVE SumSeq(_)
SumSeq(s) == IF s = <<>> THEN 0 ELSE Head(s) + SumSeq(Tail(s))

----------------------------------------------------------------------------
(* Dates.  dateutil.parser.parse gives a datetime with the fields below;   *)
(* git's %ci prints a UTC offset, so the datetime is timezone-aware: its   *)
(* fields are local, and < on two datetimes compares the instants.         *)

Date(y, mo, d, h, mi, s, off) ==
    [year |-> y, month |-> mo, day |-> d, hour |-> h, minute |-> mi,
     second |-> s, utcoffset |-> off]

StampTable ==
    << Date(2016, 1, 1, 10, 0, 0, 0),
       Date(2017, 1, 1, 10, 0, 0, 0),
       Date(2017, 1, 1, 9, 0, 0, -2),
       Date(2017, 1, 1, 10, 30, 0, 0),
       Date(2017, 2, 1, 10, 0, 0, 0) >>

\* The instant of a datetime, in seconds since 2000 (order-preserving):
\* the local fields minus the offset.
Instant(dts) ==
    ((((((dts.year - 2000) * 12 + dts.month) * 31 + dts.day) * 24
        + dts.hour - dts.utcoffset) * 60 + dts.minute) * 60) + dts.second

----------------------------------------------------------------------------
(* Log messages *)

Msg(level, msg, name, n, m) ==
    [level |-> level, msg |-> msg, name |-> name, n |-> n, m |-> m]

Info(msg) == Msg("info", msg, "", 0, 0)
InfoN(msg, n, m) == Msg("info", msg, "", n, m)
Warn(msg, name) == Msg("warn", msg, name, 0, 0)
Fatal(msg) == Msg("fatal", msg, "", 0, 0)

Logged(msg) == \E i \in 1..Len(log) : log[i].msg = msg

----------------------------------------------------------------------------
(* Node: the constructor and the predicates *)

NewNode(cid, pids, branches, tags, dts) ==
    [m_cid |-> cid,
     m_idx |-> Len(m_list),
     m_parents |-> pids,
     m_branches |-> branches,
     m_tags |-> tags,
     m_children |-> <<>>,
     m_vars |-> EmptyMap,
     m_choose |-> TRUE,
     m_extra |-> <<>>,
     m_dts |-> dts,
     m_chain_head |-> None,
     m_chain_tail |-> None,
     m_chain_size |-> UnsetChainSize]

is_squashable(nd, n) ==
    IF \/ Len(nd[n].m_branches) > 0
       \/ Len(nd[n].m_tags) > 0
       \/ Len(nd[n].m_parents) > 1
       \/ Len(nd[n].m_children) > 1
    THEN FALSE
    ELSE TRUE

\* Mutant of is_squashed: the tests against the head and the tail are missing.
is_squashedWithEnds(nd, n) ==
    IF nd[n].m_chain_head = None THEN FALSE
    ELSE IF nd[n].m_chain_tail = None THEN FALSE
    ELSE nd[n].m_chain_size > 0

is_squashed(nd, n) ==
    IF nd[n].m_chain_head = None THEN FALSE
    ELSE IF nd[n].m_chain_tail = None THEN FALSE
    ELSE /\ nd[n].m_chain_size > 0
         /\ nd[n].m_cid # nd[nd[n].m_chain_head].m_cid
         /\ nd[n].m_cid # nd[nd[n].m_chain_tail].m_cid

is_squashed_head(nd, n) ==
    IF nd[n].m_chain_head = None THEN FALSE
    ELSE nd[nd[n].m_chain_head].m_cid = nd[n].m_cid

is_squashed_tail(nd, n) ==
    IF nd[n].m_chain_tail = None THEN FALSE
    ELSE nd[nd[n].m_chain_tail].m_cid = nd[n].m_cid

is_merge_node(nd, n) == Len(nd[n].m_children) > 1

rm_parent(ps, pcid) ==
    LET Keep(p) == p # pcid IN SelectSeq(ps, Keep)

rm_child(cs, ccid) ==
    LET Keep(c) == c # ccid IN SelectSeq(cs, Keep)

----------------------------------------------------------------------------
(* parse: the record loop *)

\* One entry of the ref decoration, after the split on "," and the strip:
\* its text, whether "tag: " occurs in it, and fld.split(" -> ")[1] when
\* " -> " occurs in it ("" when it does not).
RefEntry(text, tagged, rhs) == [text |-> text, tagged |-> tagged, rhs |-> rhs]

\* Mutant of ParseRefs: the test for the arrow comes before the test for the
\* tag marker.
RECURSIVE ParseRefsArrowFirst(_, _, _)
ParseRefsArrowFirst(flds, branches, tags) ==
    IF flds = <<>> THEN [branches |-> branches, tags |-> tags]
    ELSE LET fld == Head(flds) IN
         IF fld.rhs # ""
         THEN ParseRefsArrowFirst(Tail(flds), Append(branches, fld.rhs), tags)
         ELSE IF fld.tagged
         THEN ParseRefsArrowFirst(Tail(flds), branches, Append(tags, fld.text))
         ELSE ParseRefsArrowFirst(Tail(flds), Append(branches, fld.text), tags)

RECURSIVE ParseRefs(_, _, _)
ParseRefs(flds, branches, tags) ==
    IF flds = <<>> THEN [branches |-> branches, tags |-> tags]
    ELSE LET fld == Head(flds) IN
         IF fld.tagged
         THEN ParseRefs(Tail(flds), branches, Append(tags, fld.text))
         ELSE LET ref == IF fld.rhs # "" THEN fld.rhs ELSE fld.text
              IN ParseRefs(Tail(flds), Append(branches, ref), tags)

\* The text of a decoration is a sequence of tokens: "(", ")", ",", " ",
\* "tag:", "->" and names.  No name holds a space, a comma, a parenthesis or
\* a character of "tag:" followed by a space, or of "->", so that a substring
\* test on the text is a test on the tokens.

RECURSIVE Join(_)
Join(toks) == IF toks = <<>> THEN "" ELSE Head(toks) \o Join(Tail(toks))

\* str.strip(): without the whitespace at both ends.
RECURSIVE strip(_)
strip(t) ==
    IF t = <<>> THEN t
    ELSE IF Head(t) = " " THEN strip(Tail(t))
    ELSE IF Last(t) = " " THEN strip(SubSeq(t, 1, Len(t) - 1))
    ELSE t

\* The first position at which pat occurs in t (0 when it does not).
Find(t, pat) ==
    LET At(i) == SubSeq(t, i, i + Len(pat) - 1) = pat
        hits == {i \in 1..(Len(t) - Len(pat) + 1) : At(i)}
    IN IF hits = {} THEN 0 ELSE CHOOSE i \in hits : \A j \in hits : i <= j

\* pat in t
Contains(t, pat) == Find(t, pat) > 0

\* t.split(sep): the pieces between the occurrences of sep, left to right.
RECURSIVE split(_, _)
split(t, sep) ==
    LET i == Find(t, sep)
    IN IF i = 0 THEN << t >>
       ELSE << SubSeq(t, 1, i - 1) >>
              \o split(SubSeq(t, i + Len(sep), Len(t)), sep)

TagMarker == << "tag:", " " >>

Arrow == << " ", "->", " " >>

\* refs = flds[4].strip(); the parentheses go when refs has both; the fields
\* of refs.split(","), each stripped.  No field at all when refs is empty.
RefFields(text) ==
    LET refs == strip(text)
        inner == IF Head(refs) = "(" /\ Last(refs) = ")"
                 THEN SubSeq(refs, 2, Len(refs) - 1)
                 ELSE refs
        flds == split(inner, << "," >>)
    IN IF Len(refs) = 0 THEN <<>>
       ELSE [i \in 1..Len(flds) |->
                LET fld == strip(flds[i])
                IN RefEntry(Join(fld), Contains(fld, TagMarker),
                            IF Contains(fld, Arrow)
                            THEN Join(split(fld, Arrow)[2])
                            ELSE "")]

\* The parent lists a record may carry: at most MaxParents distinct ids,
\* each smaller than the commit's (a commit's parents are older commits).
ParentLists(cid) ==
    {s \in UNION {[1..k -> 1..(cid - 1)] : k \in 0..MaxParents} :
        \A i, j \in 1..Len(s) : i # j => s[i] # s[j]}

\* The ids the next record may have: git log prints a commit before its
\* parents, so ids arrive in descending order.
NextIds(maxid) ==
    IF m_list = <<>> THEN 1..maxid ELSE 1..(Last(m_list) - 1)

Records(maxid, Decorations, Dates) ==
    UNION {{[cid |-> c, pids |-> p, refs |-> r, date |-> d] :
               p \in ParentLists(c), r \in Decorations, d \in Dates} :
           c \in NextIds(maxid)}

\* A "|Record:|" line whose date parses: Node(cid, pids, branches, tags, dts).
ParseRecord(Recs) ==
    /\ pc = "parse"
    /\ \E r \in Recs :
         LET parsed == ParseRefs(r.refs, <<>>, <<>>)
             nd == NewNode(r.cid, r.pids, parsed.branches, parsed.tags, r.date)
         IN /\ r.cid \notin DOMAIN m_map
            /\ node' = (r.cid :> nd) @@ node
            /\ m_list' = Append(m_list, r.cid)
            /\ m_map' = (r.cid :> r.cid) @@ m_map
    /\ UNCHANGED <<pc, err, opts, m_vars_usage, lines, m_list_bydate, dot, log>>

\* line.find("|Record:|") >= 0: a record line is kept as its fields, any
\* other line as its text.
IsRecordLine(line) == "cid" \in DOMAIN line

\* The same step on the next of the lines, with the decoration as text.
ParseLine ==
    /\ pc = "parse"
    /\ lines # <<>>
    /\ IsRecordLine(Head(lines))
    /\ LET flds == Head(lines)
           parsed == ParseRefs(RefFields(flds.refs), <<>>, <<>>)
           nd == NewNode(flds.cid, flds.pids, parsed.branches, parsed.tags,
                         flds.date)
       IN /\ node' = (flds.cid :> nd) @@ node
          /\ m_list' = Append(m_list, flds.cid)
          /\ m_map' = (flds.cid :> flds.cid) @@ m_map
    /\ lines' = Tail(lines)
    /\ UNCHANGED <<pc, err, opts, m_vars_usage, m_list_bydate, dot, log>>

\* A "|Record:|" line whose date does not parse: log.fatal, sys.exit(1).
ParseBadDateExit ==
    /\ pc' = "exit"
    /\ log' = Append(log, Fatal("unrecognized date format"))
    /\ UNCHANGED <<err, opts, m_vars_usage, lines, m_list, m_map, node, m_list_bydate, dot>>

ParseBadDate ==
    /\ pc = "parse"
    /\ ParseBadDateExit

\* Mutant of ParseFinishStep: the sys.exit(1) after log.fatal is missing.
ParseFinishStepNoExit ==
    /\ pc' = "prune_by_date"
    /\ log' = IF Len(m_list) = 0 THEN Append(log, Fatal("no records found"))
              ELSE log

\* The end of the lines: no record at all is fatal.
ParseFinishStep ==
    IF Len(m_list) = 0
    THEN /\ pc' = "exit"
         /\ log' = Append(log, Fatal("no records found"))
    ELSE /\ pc' = "prune_by_date"
         /\ log' = log

ParseFinish ==
    /\ pc = "parse"
    /\ ParseFinishStep
    /\ UNCHANGED <<err, opts, m_vars_usage, lines, m_list, m_map, node, m_list_bydate, dot>>

----------------------------------------------------------------------------
(* prune_by_date *)

DateRestricted == opts.since # "" \/ opts.until # "" \/ opts.range # ""

\* Mutant of KeptParents: np.append(cid) whether or not cid is in the map.
KeptParentsAll(ps) == ps

\* np of one node: the parent ids that are in Node.m_map, in order.
KeptParents(ps) ==
    LET InMap(cid) == cid \in DOMAIN m_map IN SelectSeq(ps, InMap)

\* Mutant of PrunedByDate: a node with an absent parent loses all its parents.
PrunedByDateDroppingAll ==
    [n \in DOMAIN node |->
        IF Len(KeptParents(node[n].m_parents)) < Len(node[n].m_parents)
        THEN [node[n] EXCEPT !.m_parents = <<>>]
        ELSE node[n]]

\* The loop over Node.m_list: m_parents = np where a parent was dropped.
PrunedByDate ==
    [n \in DOMAIN node |->
        LET np == KeptParents(node[n].m_parents) IN
        IF Len(np) < Len(node[n].m_parents)
        THEN [node[n] EXCEPT !.m_parents = np]
        ELSE node[n]]

PruneByDate ==
    /\ pc = "prune_by_date"
    /\ pc' = "prune_by_choice"
    /\ IF DateRestricted
       THEN LET numt == SumSeq([i \in 1..Len(m_list) |->
                                   Len(node[m_list[i]].m_parents)])
                kept == SumSeq([i \in 1..Len(m_list) |->
                                   Len(KeptParents(node[m_list[i]].m_parents))])
            IN /\ node' = PrunedByDate
               /\ log' = log \o << Info("pruning parents"),
                                   InfoN("pruned parent node references",
                                         numt - kept, numt) >>
       ELSE UNCHANGED <<node, log>>
    /\ UNCHANGED <<err, opts, m_vars_usage, lines, m_list, m_map, m_list_bydate, dot>>

----------------------------------------------------------------------------
(* prune_by_choice *)

ChoiceRequested == Len(opts.choose_branch) > 0 \/ Len(opts.choose_tag) > 0

\* Mutant of SeedsOf: every node with a branch (a tag) is a seed, whatever
\* the name.
SeedsOfAnyName(name, field) ==
    LET Has(idx) == Len(node[m_list[idx + 1]][field]) > 0
    IN SelectSeq([i \in 1..Len(m_list) |-> i - 1], Has)

\* bs[b] (ts[t]): the indexes of the nodes whose branches (tags) hold the name.
SeedsOf(name, field) ==
    LET Has(idx) == name \in Range(node[m_list[idx + 1]][field])
    IN SelectSeq([i \in 1..Len(m_list) |-> i - 1], Has)

RECURSIVE SeedsOfAll(_, _)
SeedsOfAll(names, field) ==
    IF names = <<>> THEN <<>>
    ELSE SeedsOf(Head(names), field) \o SeedsOfAll(Tail(names), field)

RECURSIVE NotFound(_, _)
NotFound(names, field) ==
    IF names = <<>> THEN <<>>
    ELSE (IF Len(SeedsOf(Head(names), field)) = 0
          THEN << Warn("--choose-branch not found", Head(names)) >>
          ELSE <<>>) \o NotFound(Tail(names), field)

\* Mutant of PushedParents: only the first parent is followed.
PushedFirstParent(idx) ==
    LET ps == node[m_list[idx + 1]].m_parents
    IN IF Len(ps) = 0 THEN <<>> ELSE << node[m_map[ps[1]]].m_idx >>

\* The indexes get_parents pushes for one node: Node.m_map[pcid].m_idx for
\* every parent id, in order.  A parent id that is not in Node.m_map raises
\* KeyError.
PushedParents(idx) ==
    LET ps == node[m_list[idx + 1]].m_parents
    IN [i \in 1..Len(ps) |-> node[m_map[ps[i]]].m_idx]

\* get_parents: the loop over the explicit stack.  parents is the set of
\* keys of the dict of the same name; every key is a node with m_choose set.
RECURSIVE get_parents(_, _)
get_parents(stack, parents) ==
    IF Len(stack) = 0 THEN [ok |-> TRUE, parents |-> parents]
    ELSE LET idx == Last(stack)
             rest == SubSeq(stack, 1, Len(stack) - 1)
         IN IF idx \in parents THEN get_parents(rest, parents)
            ELSE IF \E pcid \in Range(node[m_list[idx + 1]].m_parents) :
                       pcid \notin DOMAIN m_map
            THEN [ok |-> FALSE, parents |-> parents \cup {idx}]
            ELSE get_parents(rest \o PushedParents(idx), parents \cup {idx})

\* Mutant of Traverse: get_parents is called for the first seed only.
TraverseFirstSeed(seeds, parents) ==
    IF seeds = <<>> THEN [ok |-> TRUE, parents |-> parents]
    ELSE get_parents(<< Head(seeds) >>, parents)

\* The two loops over bs and ts: get_parents for every seed.
RECURSIVE Traverse(_, _)
Traverse(seeds, parents) ==
    IF seeds = <<>> THEN [ok |-> TRUE, parents |-> parents]
    ELSE LET r == get_parents(<< Head(seeds) >>, parents)
         IN IF r.ok THEN Traverse(Tail(seeds), r.parents) ELSE r

\* m_choose after the marking: False everywhere, True on the visited nodes.
Marked(parents) ==
    [n \in DOMAIN node |->
        [node[n] EXCEPT !.m_choose = (node[n].m_idx \in parents)]]

\* Mutant of DeleteNode: the node leaves Node.m_map and stays in Node.m_list.
DeleteNodeFromMapOnly(st, n) ==
    [node |-> st.node,
     list |-> st.list,
     map |-> [x \in DOMAIN st.map \ {st.node[n].m_cid} |-> st.map[x]]]

\* The deletion of one node nd that is not chosen, in the store st.
DeleteNode(st, n) ==
    LET cid == st.node[n].m_cid
        idx == st.node[n].m_idx
        ps == st.node[n].m_parents
        cs == st.node[n].m_children
        \* the parents' child lists
        nd1 == [x \in DOMAIN st.node |->
                  IF /\ x \in Range(ps)
                     /\ x \in DOMAIN st.map
                     /\ st.node[st.map[x]].m_choose = TRUE
                  THEN [st.node[x] EXCEPT !.m_children = rm_child(@, cid)]
                  ELSE st.node[x]]
        \* the children's parent lists
        nd2 == [x \in DOMAIN nd1 |->
                  IF x \in Range(cs) /\ nd1[x].m_choose = TRUE
                  THEN [nd1[x] EXCEPT !.m_parents = rm_parent(@, cid)]
                  ELSE nd1[x]]
    IN [node |-> nd2,
        list |-> SubSeq(st.list, 1, idx) \o SubSeq(st.list, idx + 2, Len(st.list)),
        map |-> [x \in DOMAIN st.map \ {cid} |-> st.map[x]]]

\* for nd in Node.m_list[::-1]: the copy all is walked from its last node.
RECURSIVE DeleteLoop(_, _, _)
DeleteLoop(all, i, st) ==
    IF i = 0 THEN st
    ELSE IF st.node[all[i]].m_choose = FALSE
         THEN DeleteLoop(all, i - 1, DeleteNode(st, all[i]))
         ELSE DeleteLoop(all, i - 1, st)

\* Mutant of Reindexed: the last loop is missing, m_idx stays as it was.
ReindexedNot(st) == [n \in Range(st.list) |-> st.node[n]]

\* The last loop: every node left gets its position as m_idx.  The nodes
\* that are in neither registry any more are dropped from the heap.
Reindexed(st) ==
    [n \in Range(st.list) |->
        [st.node[n] EXCEPT !.m_idx =
            (CHOOSE i \in 1..Len(st.list) : st.list[i] = n) - 1]]

PruneByChoice ==
    /\ pc = "prune_by_choice"
    /\ IF ~ChoiceRequested
       THEN /\ pc' = "children"
            /\ UNCHANGED <<err, m_list, m_map, node, log>>
       ELSE
         LET seeds == SeedsOfAll(opts.choose_branch, "m_branches")
                        \o SeedsOfAll(opts.choose_tag, "m_tags")
             log1 == (log \o << Info("pruning graph based on choices") >>)
                        \o NotFound(opts.choose_branch, "m_branches")
                        \o NotFound(opts.choose_tag, "m_tags")
             r == Traverse(seeds, {})
             pruning == Len(m_list) - Cardinality(r.parents)
             log2 == log1 \o << InfoN("keeping", Cardinality(r.parents), 0),
                                InfoN("pruning", pruning, 0) >>
             st == DeleteLoop(m_list, Len(m_list),
                              [node |-> Marked(r.parents), list |-> m_list,
                               map |-> m_map])
         IN IF ~r.ok
            THEN /\ pc' = "crash"
                 /\ err' = "KeyError"
                 /\ node' = Marked(r.parents)
                 /\ log' = log1
                 /\ UNCHANGED <<m_list, m_map>>
            ELSE IF pruning = 0
            THEN /\ pc' = "children"
                 /\ node' = Marked(r.parents)
                 /\ log' = Append(log2, Warn("nothing to prune", ""))
                 /\ UNCHANGED <<err, m_list, m_map>>
            ELSE /\ pc' = "children"
                 /\ node' = Reindexed(st)
                 /\ m_list' = st.list
                 /\ m_map' = st.map
                 /\ log' = Append(log2, InfoN("remaining", Len(st.list), 0))
                 /\ UNCHANGED err
    /\ UNCHANGED <<opts, m_vars_usage, lines, m_list_bydate, dot>>

----------------------------------------------------------------------------
(* parse: the children of each node, from the parents *)

\* The appends of the two nested loops, in order: <<child, parent id>>.
RECURSIVE ParentRefs(_)
ParentRefs(list) ==
    IF list = <<>> THEN <<>>
    ELSE LET ps == node[Head(list)].m_parents
         IN [i \in 1..Len(ps) |-> << Head(list), ps[i] >>] \o ParentRefs(Tail(list))

\* Mutant of AppendChildren: the link goes the wrong way, the parent is
\* appended to the children of nd.
RECURSIVE AppendChildrenSwapped(_, _)
AppendChildrenSwapped(refs, nd) ==
    IF refs = <<>> THEN [ok |-> TRUE, node |-> nd]
    ELSE LET child == Head(refs)[1]
             p == Head(refs)[2]
         IN IF p \notin DOMAIN m_map THEN [ok |-> FALSE, node |-> nd]
            ELSE AppendChildrenSwapped(Tail(refs),
                    [nd EXCEPT ![child].m_children = Append(@, m_map[p])])

\* Mutant of AppendChildren: a parent id that is not in the map is passed
\* over instead of raising KeyError.
RECURSIVE AppendChildrenOfStored(_, _)
AppendChildrenOfStored(refs, nd) ==
    IF refs = <<>> THEN [ok |-> TRUE, node |-> nd]
    ELSE LET child == Head(refs)[1]
             p == Head(refs)[2]
         IN IF p \notin DOMAIN m_map THEN AppendChildrenOfStored(Tail(refs), nd)
            ELSE AppendChildrenOfStored(Tail(refs),
                    [nd EXCEPT ![m_map[p]].m_children = Append(@, child)])

\* Node.m_map[p].m_children.append(nd); KeyError when p is not in the map.
RECURSIVE AppendChildren(_, _)
AppendChildren(refs, nd) ==
    IF refs = <<>> THEN [ok |-> TRUE, node |-> nd]
    ELSE LET child == Head(refs)[1]
             p == Head(refs)[2]
         IN IF p \notin DOMAIN m_map THEN [ok |-> FALSE, node |-> nd]
            ELSE AppendChildren(Tail(refs),
                    [nd EXCEPT ![m_map[p]].m_children = Append(@, child)])

\* Mutant of DeriveChildren: the children are derived before the choice
\* pass instead of after it.
DeriveChildrenEarly ==
    /\ pc = "prune_by_choice"
    /\ pc' = pc
    /\ \A n \in Range(m_list) : node[n].m_children = <<>>
    /\ node' = AppendChildren(ParentRefs(m_list), node).node
    /\ log' = Append(log, Info("updating children"))
    /\ UNCHANGED <<err, opts, m_vars_usage, lines, m_list, m_map, m_list_bydate, dot>>

\* for var in Node.m_vars_usage: one line of the summary per variable.
UsageSummary(usage) ==
    [i \in DOMAIN usage |->
        Msg("info", "found nodes with values for variable", usage[i].var,
            Len(usage[i].cids), 0)]

DeriveChildren ==
    /\ pc = "children"
    /\ LET refs == ParentRefs(m_list)
           r == AppendChildren(refs, node)
       IN /\ node' = r.node
          /\ IF r.ok
             THEN /\ pc' = "squash"
                  /\ log' = log \o << Info("updating children"),
                                      InfoN("found commit nodes", Len(m_list), 0),
                                      InfoN("found commit edges", Len(refs), 0) >>
                                   \o UsageSummary(m_vars_usage)
                  /\ UNCHANGED err
             ELSE /\ pc' = "crash"
                  /\ err' = "KeyError"
                  /\ log' = Append(log, Info("updating children"))
    /\ UNCHANGED <<opts, m_vars_usage, lines, m_list, m_map, m_list_bydate, dot>>

----------------------------------------------------------------------------
(* Node.squash *)

\* The loop of find_chain_head: towards the parents while squashable.
RECURSIVE HeadWalk(_, _, _)
HeadWalk(nd, chain_head, chain_next) ==
    IF chain_next # None /\ is_squashable(nd, chain_next)
    THEN HeadWalk(nd, chain_next,
                  IF Len(nd[chain_next].m_parents) > 0
                  THEN m_map[nd[chain_next].m_parents[1]]
                  ELSE None)
    ELSE chain_head

find_chain_head(nd, n) ==
    IF is_squashable(nd, n) = FALSE THEN None
    ELSE IF nd[n].m_chain_head # None THEN nd[n].m_chain_head
    ELSE HeadWalk(nd, None, n)

\* The loop of find_chain_tail: towards the children while squashable.
RECURSIVE TailWalk(_, _, _)
TailWalk(nd, chain_tail, chain_next) ==
    IF chain_next # None /\ is_squashable(nd, chain_next)
    THEN TailWalk(nd, chain_next,
                  IF Len(nd[chain_next].m_children) > 0
                  THEN nd[chain_next].m_children[1]
                  ELSE None)
    ELSE chain_tail

find_chain_tail(nd, n) ==
    IF is_squashable(nd, n) = FALSE THEN None
    ELSE IF nd[n].m_chain_tail # None THEN nd[n].m_chain_tail
    ELSE TailWalk(nd, None, n)

\* update: the heads found, in the order their keys entered the dict.
RECURSIVE ChainHeads(_, _, _)
ChainHeads(nd, list, update) ==
    IF list = <<>> THEN update
    ELSE LET head == find_chain_head(nd, Head(list))
         IN IF head # None /\ head \notin Range(update)
            THEN ChainHeads(nd, Tail(list), Append(update, head))
            ELSE ChainHeads(nd, Tail(list), update)

\* Mutant of ChainDistance: the loop ends when cnext, not clast, is the
\* tail, and counts the hops.
RECURSIVE ChainDistanceHops(_, _, _, _, _)
ChainDistanceHops(nd, cnext, clast, tail, distance) ==
    IF cnext = tail THEN [ok |-> TRUE, distance |-> distance]
    ELSE IF Len(nd[cnext].m_children) = 0
         THEN [ok |-> FALSE, distance |-> distance + 1]
         ELSE ChainDistanceHops(nd, nd[cnext].m_children[1], cnext, tail,
                                distance + 1)

\* The first while loop: the distance.  cnext.m_children[0] raises
\* IndexError when cnext has no child.
RECURSIVE ChainDistance(_, _, _, _, _)
ChainDistance(nd, cnext, clast, tail, distance) ==
    IF clast = tail THEN [ok |-> TRUE, distance |-> distance]
    ELSE IF Len(nd[cnext].m_children) = 0
         THEN [ok |-> FALSE, distance |-> distance + 1]
         ELSE ChainDistance(nd, nd[cnext].m_children[1], cnext, tail, distance + 1)

\* Mutant of Stamp: m_chain_size += distance.
StampAccumulating(nd, cnext, head, tail, distance) ==
    [nd EXCEPT ![m_map[nd[cnext].m_cid]].m_chain_head = head,
               ![m_map[nd[cnext].m_cid]].m_chain_tail = tail,
               ![m_map[nd[cnext].m_cid]].m_chain_size = @ + distance]

\* The three assignments through Node.m_list[idx] and through Node.m_map[cid].
Stamp(nd, cnext, head, tail, distance) ==
    LET idx == nd[cnext].m_idx
        cid == nd[cnext].m_cid
        byidx == m_list[idx + 1]
        nd1 == [nd EXCEPT ![byidx].m_chain_head = head,
                          ![byidx].m_chain_tail = tail,
                          ![byidx].m_chain_size = distance]
    IN [nd1 EXCEPT ![m_map[cid]].m_chain_head = head,
                   ![m_map[cid]].m_chain_tail = tail,
                   ![m_map[cid]].m_chain_size = distance]

\* The second while loop: the stamps.
RECURSIVE StampChain(_, _, _, _, _, _)
StampChain(nd, cnext, clast, head, tail, distance) ==
    IF clast = tail THEN [ok |-> TRUE, node |-> nd]
    ELSE LET nd1 == Stamp(nd, cnext, head, tail, distance)
         IN IF Len(nd1[cnext].m_children) = 0
            THEN [ok |-> FALSE, node |-> nd1]
            ELSE StampChain(nd1, nd1[cnext].m_children[1], cnext, head, tail,
                            distance)

\* The body of "for key in update".
SquashChain(nd, head) ==
    LET tail == find_chain_tail(nd, head)
        d == ChainDistance(nd, head, head, tail, 0)
    IN IF d.ok THEN StampChain(nd, head, head, head, tail, d.distance)
       ELSE [ok |-> FALSE, node |-> nd]

RECURSIVE SquashChains(_, _)
SquashChains(nd, update) ==
    IF update = <<>> THEN [ok |-> TRUE, node |-> nd]
    ELSE LET r == SquashChain(nd, Head(update))
         IN IF r.ok THEN SquashChains(r.node, Tail(update)) ELSE r

squash(nd) == SquashChains(nd, ChainHeads(nd, m_list, <<>>))

Squash ==
    /\ pc = "squash"
    /\ IF opts.squash
       THEN LET r == squash(node)
            IN /\ node' = r.node
               /\ log' = Append(log, Info("squashing chains"))
               /\ IF r.ok
                  THEN pc' = "sort" /\ UNCHANGED err
                  ELSE pc' = "crash" /\ err' = "IndexError"
       ELSE /\ pc' = "sort"
            /\ UNCHANGED <<err, node, log>>
    /\ UNCHANGED <<opts, m_vars_usage, lines, m_list, m_map, m_list_bydate, dot>>

----------------------------------------------------------------------------
(* parse: Node.m_list_bydate *)

\* list.sort is stable: a commit id goes behind every id whose date is not
\* later than its own.
RECURSIVE SortedInsert(_, _)
SortedInsert(sorted, cid) ==
    IF sorted = <<>> THEN << cid >>
    ELSE IF Instant(node[m_map[Last(sorted)]].m_dts) <= Instant(node[m_map[cid]].m_dts)
         THEN Append(sorted, cid)
         ELSE Append(SortedInsert(SubSeq(sorted, 1, Len(sorted) - 1), cid),
                     Last(sorted))

RECURSIVE SortByDts(_, _)
SortByDts(cids, sorted) ==
    IF cids = <<>> THEN sorted
    ELSE SortByDts(Tail(cids), SortedInsert(sorted, Head(cids)))

SortByDate ==
    /\ pc = "sort"
    /\ pc' = "gendot"
    /\ m_list_bydate' = SortByDts([i \in 1..Len(m_list) |-> node[m_list[i]].m_cid],
                                  <<>>)
    /\ log' = Append(log, Info("sorting by date"))
    /\ UNCHANGED <<err, opts, m_vars_usage, lines, m_list, m_map, node, dot>>

----------------------------------------------------------------------------
(* gendot *)

Summary0 ==
    [num_graph_commit_nodes |-> 0, num_graph_merge_nodes |-> 0,
     num_graph_squash_nodes |-> 0, total_graph_commit_nodes |-> 0,
     total_commits |-> 0]

\* The first loop: the vertices, and what each adds to the summary.
RECURSIVE LabelNodes(_, _)
LabelNodes(list, g) ==
    IF list = <<>> THEN g
    ELSE LET n == Head(list)
             V(kind) == Append(g.vertices, [cid |-> node[n].m_cid, kind |-> kind,
                                            label |-> node[n].m_extra])
             sm == g.summary
         IN IF opts.squash /\ is_squashed(node, n)
            THEN LabelNodes(Tail(list), g)
            ELSE IF is_merge_node(node, n)
            THEN LabelNodes(Tail(list),
                   [g EXCEPT !.vertices = V("mnode"),
                      !.summary = [sm EXCEPT
                         !.num_graph_merge_nodes = @ + 1,
                         !.total_graph_commit_nodes = @ + 1,
                         !.total_commits = @ + 1]])
            ELSE IF is_squashed_head(node, n) \/ is_squashed_tail(node, n)
            THEN LabelNodes(Tail(list),
                   [g EXCEPT !.vertices = V("snode"),
                      !.summary = [sm EXCEPT
                         !.num_graph_squash_nodes = @ + 1,
                         !.total_graph_commit_nodes = @ + 1]])
            ELSE LabelNodes(Tail(list),
                   [g EXCEPT !.vertices = V("cnode"),
                      !.summary = [sm EXCEPT
                         !.num_graph_commit_nodes = @ + 1,
                         !.total_graph_commit_nodes = @ + 1,
                         !.total_commits = @ + 1]])

Edge(src, dst, kind, label) ==
    [src |-> src, dst |-> dst, kind |-> kind, label |-> label]

\* Mutant of DefineEdges: the tail of a chain is not passed over, so its
\* edge to its parent is written.
RECURSIVE DefineEdgesOfTails(_, _)
DefineEdgesOfTails(list, g) ==
    IF list = <<>> THEN g
    ELSE LET n == Head(list)
             sedge == IF is_squashed_head(node, n)
                      THEN << Edge(node[n].m_cid, node[node[n].m_chain_tail].m_cid,
                                   "sedge", node[n].m_chain_size) >>
                      ELSE <<>>
             pedges == [i \in 1..Len(node[n].m_parents) |->
                          Edge(node[n].m_parents[i], node[n].m_cid, "pedge", 0)]
             total == IF is_squashed_head(node, n)
                      THEN g.summary.total_commits + node[n].m_chain_size
                      ELSE g.summary.total_commits
         IN IF is_squashed(node, n) THEN DefineEdgesOfTails(Tail(list), g)
            ELSE DefineEdgesOfTails(Tail(list),
                   [g EXCEPT !.edges = (@ \o sedge) \o pedges,
                             !.summary.total_commits = total])

\* Mutant of DefineEdges: the chain-size of a head is not added to
\* total_commits.
RECURSIVE DefineEdgesUncounted(_, _)
DefineEdgesUncounted(list, g) ==
    IF list = <<>> THEN g
    ELSE LET n == Head(list)
             sedge == IF is_squashed_head(node, n)
                      THEN << Edge(node[n].m_cid, node[node[n].m_chain_tail].m_cid,
                                   "sedge", node[n].m_chain_size) >>
                      ELSE <<>>
             pedges == [i \in 1..Len(node[n].m_parents) |->
                          Edge(node[n].m_parents[i], node[n].m_cid, "pedge", 0)]
         IN IF is_squashed(node, n) THEN DefineEdgesUncounted(Tail(list), g)
            ELSE IF is_squashed_tail(node, n)
            THEN DefineEdgesUncounted(Tail(list), g)
            ELSE DefineEdgesUncounted(Tail(list),
                   [g EXCEPT !.edges = (@ \o sedge) \o pedges])

\* The second loop: the squash edge of a head, then the edges to the parents.
RECURSIVE DefineEdges(_, _)
DefineEdges(list, g) ==
    IF list = <<>> THEN g
    ELSE LET n == Head(list)
             sedge == IF is_squashed_head(node, n)
                      THEN << Edge(node[n].m_cid, node[node[n].m_chain_tail].m_cid,
                                   "sedge", node[n].m_chain_size) >>
                      ELSE <<>>
             pedges == [i \in 1..Len(node[n].m_parents) |->
                          Edge(node[n].m_parents[i], node[n].m_cid, "pedge", 0)]
             total == IF is_squashed_head(node, n)
                      THEN g.summary.total_commits + node[n].m_chain_size
                      ELSE g.summary.total_commits
         IN IF is_squashed(node, n) THEN DefineEdges(Tail(list), g)
            ELSE IF is_squashed_tail(node, n) THEN DefineEdges(Tail(list), g)
            ELSE DefineEdges(Tail(list),
                   [g EXCEPT !.edges = (@ \o sedge) \o pedges,
                             !.summary.total_commits = total])

attrs == << "year", "month", "day", "hour", "minute", "second" >>

\* "for attr in attrs": one invisible edge lnd -> nd for every field in which
\* nd is smaller than lnd, up to the first field in which nd is larger.
RECURSIVE CompareFields(_, _, _, _)
CompareFields(i, nd, lnd, pairs) ==
    IF i > Len(attrs) THEN pairs
    ELSE LET v1 == node[nd].m_dts[attrs[i]]
             v2 == node[lnd].m_dts[attrs[i]]
         IN IF v1 < v2
            THEN CompareFields(i + 1, nd, lnd,
                               Append(pairs, << node[lnd].m_cid, node[nd].m_cid >>))
            ELSE IF v1 > v2 THEN pairs
            ELSE CompareFields(i + 1, nd, lnd, pairs)

\* "for cid in Node.m_list_bydate", with the cursor lnd.
RECURSIVE AlignScan(_, _, _)
AlignScan(cids, lnd, pairs) ==
    IF cids = <<>> THEN pairs
    ELSE LET nd == m_map[Head(cids)]
         IN IF is_squashed(node, nd) THEN AlignScan(Tail(cids), lnd, pairs)
            ELSE AlignScan(Tail(cids),
                           IF Instant(node[lnd].m_dts) < Instant(node[nd].m_dts)
                           THEN nd ELSE lnd,
                           CompareFields(1, nd, lnd, pairs))

\* Node.m_list_bydate[0] raises IndexError on an empty list.
AlignCrashes == opts.align_by_date # "none" /\ Len(m_list_bydate) = 0

AlignPairs ==
    IF opts.align_by_date # "none"
    THEN AlignScan(m_list_bydate, m_map[m_list_bydate[1]], <<>>)
    ELSE <<>>

Gendot ==
    /\ pc = "gendot"
    /\ IF AlignCrashes
       THEN /\ pc' = "crash"
            /\ err' = "IndexError"
            /\ dot' = dot
            /\ log' = log \o << Info("defining edges"),
                                Info("annotating branches and tags"),
                                Msg("info", "align by", opts.align_by_date, 0, 0) >>
       ELSE LET g0 == [vertices |-> <<>>, edges |-> <<>>, pairs |-> <<>>,
                       summary |-> Summary0]
                g1 == DefineEdges(m_list, LabelNodes(m_list, g0))
            IN /\ pc' = "done"
               /\ dot' = << [g1 EXCEPT !.pairs = AlignPairs] >>
               /\ log' = log \o << Info("defining edges"),
                                   Info("annotating branches and tags") >>
                             \o (IF opts.align_by_date # "none"
                                 THEN << Msg("info", "align by",
                                             opts.align_by_date, 0, 0) >>
                                 ELSE <<>>)
                             \o << Info("done") >>
               /\ UNCHANGED err
    /\ UNCHANGED <<opts, m_vars_usage, lines, m_list, m_map, node, m_list_bydate>>

----------------------------------------------------------------------------
(* The command lines and the logs of the checked instances *)

Options(range, cb, ct, sq, align) ==
    [since |-> "", until |-> "", range |-> range, choose_branch |-> cb,
     choose_tag |-> ct, squash |-> sq, align_by_date |-> align]

Choices ==
    { << <<>>, <<>> >>, << <<"main">>, <<>> >>, << <<"nomatch">>, <<>> >>,
      << <<"main", "nomatch">>, <<>> >>, << <<>>, <<"tag: v1">> >> }

PipelineOpts ==
    {Options(r, c[1], c[2], sq, al) :
        r \in {"", DEFAULT_RANGE}, c \in Choices, sq \in BOOLEAN,
        al \in {"none", "year"}}

SquashOpts ==
    {Options(r, <<>>, <<>>, TRUE, "none") : r \in {"", DEFAULT_RANGE}}

AlignOpts ==
    {Options(DEFAULT_RANGE, <<>>, <<>>, sq, al) :
        sq \in BOOLEAN, al \in {"year", "hour"}}

Decorations ==
    { <<>>,
      << RefEntry("main", FALSE, "") >>,
      << RefEntry("tag: v1", TRUE, "") >> }

BranchDecorations == { <<>>, << RefEntry("HEAD -> main", FALSE, "main") >> }

PipelineRecords == Records(MaxCommits, Decorations, {StampTable[1]})

SquashRecords == Records(MaxChainCommits, Decorations, {StampTable[1]})

\* Histories without merges, with dates that differ.
AlignRecords ==
    {r \in Records(MaxChainCommits, BranchDecorations,
                   {StampTable[i] : i \in 1..NumStamps}) :
        r.pids \in {<<>>, << r.cid - 1 >>}}

InitWith(OptSet) ==
    /\ pc = "parse"
    /\ err = ""
    /\ opts \in OptSet
    /\ lines = <<>>
    /\ m_list = <<>>
    /\ m_map = EmptyMap
    /\ node = EmptyMap
    /\ m_list_bydate = <<>>
    /\ m_vars_usage = <<>>
    /\ dot = <<>>
    /\ log = <<>>

Stages ==
    \/ ParseBadDate
    \/ ParseFinish
    \/ PruneByDate
    \/ PruneByChoice
    \/ DeriveChildren
    \/ Squash
    \/ SortByDate
    \/ Gendot

Init == InitWith(PipelineOpts)

Next == ParseRecord(PipelineRecords) \/ Stages

Spec == Init /\ [][Next]_vars

SquashInit == InitWith(SquashOpts)

SquashNext == ParseRecord(SquashRecords) \/ Stages

SquashSpec == SquashInit /\ [][SquashNext]_vars

AlignInit == InitWith(AlignOpts)

AlignNext == ParseRecord(AlignRecords) \/ Stages

AlignSpec == AlignInit /\ [][AlignNext]_vars

\* The histories of SquashSpec, with squash and without.
SummaryOpts ==
    {Options(DEFAULT_RANGE, <<>>, <<>>, sq, "none") : sq \in BOOLEAN}

SummaryInit == InitWith(SummaryOpts)

SummaryNext == ParseRecord(SquashRecords) \/ Stages

SummarySpec == SummaryInit /\ [][SummaryNext]_vars

\* Histories without merges whose commits were made in two time zones: the
\* dates are the two of the table that differ in their offset, and squash is
\* on.
ZoneOpts ==
    {Options(DEFAULT_RANGE, <<>>, <<>>, TRUE, al) : al \in {"year", "hour"}}

ZoneRecords ==
    {r \in Records(MaxChainCommits, BranchDecorations,
                   {StampTable[2], StampTable[3]}) :
        r.pids \in {<<>>, << r.cid - 1 >>}}

ZoneInit == InitWith(ZoneOpts)

ZoneNext == ParseRecord(ZoneRecords) \/ Stages

ZoneSpec == ZoneInit /\ [][ZoneNext]_vars

\* One record line with a decoration as text: up to MaxRefs entries, each
\* with or without a space in front, joined by commas, bare or in
\* parentheses, with or without the space git's %d puts in front.
RefCores ==
    { <<>>,
      << "origin/main" >>,
      << "tag:", " ", "v1.0" >>,
      << "HEAD", " ", "->", " ", "main" >>,
      << "tag:", " ", "v1.0", " ", "->", " ", "main" >> }

RefPieces == RefCores \cup {<< " " >> \o c : c \in RefCores}

RECURSIVE RefLists(_)
RefLists(k) ==
    IF k <= 1 THEN RefPieces
    ELSE LET shorter == RefLists(k - 1)
         IN shorter \cup {l \o << "," >> \o e : l \in shorter, e \in RefPieces}

RefTexts ==
    LET ls == RefLists(MaxRefs)
    IN ls \cup {<< "(" >> \o l \o << ")" >> : l \in ls}
          \cup {<< " ", "(" >> \o l \o << ")" >> : l \in ls}

RefsInit ==
    /\ pc = "parse"
    /\ err = ""
    /\ opts = Options(DEFAULT_RANGE, <<>>, <<>>, TRUE, "none")
    /\ lines \in {<< [cid |-> 1, pids |-> <<>>, refs |-> t, date |-> StampTable[1]] >> :
                     t \in RefTexts}
    /\ m_list = <<>>
    /\ m_map = EmptyMap
    /\ node = EmptyMap
    /\ m_list_bydate = <<>>
    /\ m_vars_usage = <<>>
    /\ dot = <<>>
    /\ log = <<>>

\* The lines are parsed one by one; the stages follow the last line.
RefsNext ==
    \/ ParseLine
    \/ /\ lines = <<>>
       /\ \/ ParseFinish
          \/ PruneByDate
          \/ PruneByChoice
          \/ DeriveChildren
          \/ Squash
          \/ SortByDate
          \/ Gendot

RefsSpec == RefsInit /\ [][RefsNext]_vars

\* A second call of Node.squash on the squashed store (squash is a static
\* method; nothing in it reads pc).
SquashAgain ==
    /\ pc = "sort"
    /\ opts.squash
    /\ pc' = "squashed_again"
    /\ node' = squash(node).node
    /\ UNCHANGED <<err, opts, m_vars_usage, lines, m_list, m_map, m_list_bydate, dot, log>>

ResquashNext == SquashNext \/ SquashAgain

ResquashSpec == SquashInit /\ [][ResquashNext]_vars

\* A second call of main in the same process, with the same command line.
\* Node.m_list, Node.m_map and Node.m_list_bydate are class attributes and
\* neither main nor parse assigns them before the record loop: the second
\* invocation starts with what the first one left.  dot is a local of main.
Invocations == Cardinality({i \in 1..Len(log) : log[i].msg = "done"})

Reinvoke ==
    /\ pc = "done"
    /\ Invocations = 1
    /\ pc' = "parse"
    /\ dot' = <<>>
    /\ UNCHANGED <<err, opts, m_vars_usage, lines, m_list, m_map, node, m_list_bydate, log>>

RerunNext == Next \/ Reinvoke

RerunSpec == Init /\ [][RerunNext]_vars

-----------------------------------------------------------------------------
(* Variables and label fields in the commit text (parse, lines 458-521) *)

\* str.find: the least index at which pat starts in s, 0 for none.
StrFind(s, pat) ==
    LET hits == {i \in 1..(Len(s) - Len(pat) + 1) :
                    SubSeq(s, i, i + Len(pat) - 1) = pat}
    IN IF hits = {} THEN 0 ELSE CHOOSE i \in hits : \A j \in hits : i <= j

\* pat in s
StrIn(pat, s) == StrFind(s, pat) # 0

\* str.replace: every occurrence of old, left to right, not overlapping.
RECURSIVE StrReplace(_, _, _)
StrReplace(s, old, new) ==
    LET i == StrFind(s, old)
    IN IF i = 0 THEN s
       ELSE SubSeq(s, 1, i - 1) \o new
            \o StrReplace(SubSeq(s, i + Len(old), Len(s)), old, new)

\* str.split(sep)
RECURSIVE StrSplit(_, _)
StrSplit(s, sep) ==
    LET i == StrFind(s, sep)
    IN IF i = 0 THEN << s >>
       ELSE << SubSeq(s, 1, i - 1) >>
            \o StrSplit(SubSeq(s, i + Len(sep), Len(s)), sep)

\* str.strip() of the blanks at both ends.
RECURSIVE StrStrip(_)
StrStrip(s) ==
    IF s # "" /\ SubSeq(s, 1, 1) = " " THEN StrStrip(SubSeq(s, 2, Len(s)))
    ELSE IF s # "" /\ SubSeq(s, Len(s), Len(s)) = " "
         THEN StrStrip(SubSeq(s, 1, Len(s) - 1))
         ELSE s

\* "{}".format(vals) of a list of strings: ['1', '2'].
RECURSIVE ListItems(_)
ListItems(vals) ==
    IF vals = <<>> THEN ""
    ELSE "'" \o Head(vals) \o "'"
         \o (IF Len(vals) > 1 THEN ", " ELSE "") \o ListItems(Tail(vals))

ListRepr(vals) == "[" \o ListItems(vals) \o "]"

\* The characters of the group ([0-9a-z]+) of a -D pattern.
Alnum ==
    {"0", "1", "2", "3", "4", "5", "6", "7", "8", "9",
     "a", "b", "c", "d", "e", "f", "g", "h", "i", "j", "k", "l", "m",
     "n", "o", "p", "q", "r", "s", "t", "u", "v", "w", "x", "y", "z"}

\* The end of the longest run of group characters that starts at i.
RECURSIVE RunEnd(_, _)
RunEnd(s, i) ==
    IF i < Len(s) /\ SubSeq(s, i + 1, i + 1) \in Alnum THEN RunEnd(s, i + 1)
    ELSE i

\* re.search(reg, line) for a pattern made of the literal text p.reg and the
\* group ([0-9a-z]+): the leftmost match, the group as long as it can be.
search(p, line) ==
    LET n == Len(p.reg)
        hits == {i \in 1..(Len(line) - n) :
                    /\ SubSeq(line, i, i + n - 1) = p.reg
                    /\ SubSeq(line, i + n, i + n) \in Alnum}
    IN IF hits = {} THEN [matched |-> FALSE, group |-> ""]
       ELSE LET i == CHOOSE h \in hits : \A j \in hits : h <= j
            IN [matched |-> TRUE,
                group |-> SubSeq(line, i + n, RunEnd(line, i + n))]

\* Node.m_vars_usage[var].append(cid), the entry made on first use.
UsageAppend(usage, var, cid) ==
    IF \E i \in DOMAIN usage : usage[i].var = var
    THEN [i \in DOMAIN usage |->
             IF usage[i].var = var
             THEN [usage[i] EXCEPT !.cids = Append(@, cid)]
             ELSE usage[i]]
    ELSE Append(usage, [var |-> var, cids |-> << cid >>])

\* for p in opts.define_var: a match appends its group to the node's values
\* of the variable and the node's id to the variable's usage.
RECURSIVE ScanVars(_, _, _, _)
ScanVars(ps, line, cid, st) ==
    IF ps = <<>> THEN st
    ELSE LET p == Head(ps)
             m == search(p, line)
             vals == IF p.var \in DOMAIN st.m_vars THEN st.m_vars[p.var]
                     ELSE <<>>
             st1 == IF m.matched
                    THEN [m_vars |-> (p.var :> Append(vals, m.group)) @@ st.m_vars,
                          usage |-> UsageAppend(st.usage, p.var, cid)]
                    ELSE st
         IN ScanVars(Tail(ps), line, cid, st1)

\* setval: the value cut to th characters when th > 0, its double quotes
\* escaped, appended to the node's m_extra.
setval(extra, th, val) ==
    LET cut == IF th > 0 /\ Len(val) > th THEN SubSeq(val, 1, th) ELSE val
    IN Append(extra, StrReplace(cut, "\"", "\\\""))

\* for p in opts.define_var, on one field: a variable found in the field is
\* replaced and the field appended when the node has values for it; the
\* replaced field is what the next variable is looked up in.
RECURSIVE SubstituteVars(_, _, _, _)
SubstituteVars(ps, m_vars, th, st) ==
    IF ps = <<>> THEN st
    ELSE LET var == Head(ps).var
             st1 ==
                IF ~StrIn(var, st.fld) THEN st
                ELSE IF var \notin DOMAIN m_vars THEN [st EXCEPT !.found = TRUE]
                ELSE LET vals == m_vars[var]
                         fld == StrReplace(st.fld, var,
                                           IF Len(vals) = 1 THEN vals[1]
                                           ELSE ListRepr(vals))
                     IN [fld |-> fld, found |-> TRUE,
                         extra |-> setval(st.extra, th, fld)]
         IN SubstituteVars(Tail(ps), m_vars, th, st1)

\* for fld in flds[1:]: a field in which no variable is found is appended
\* as it is.
RECURSIVE LabelFields(_, _, _, _, _)
LabelFields(flds, ps, m_vars, th, extra) ==
    IF flds = <<>> THEN extra
    ELSE LET st == SubstituteVars(ps, m_vars, th,
                       [fld |-> Head(flds), found |-> FALSE, extra |-> extra])
             out == IF st.found THEN st.extra
                    ELSE setval(st.extra, th, Head(flds))
         IN LabelFields(Tail(flds), ps, m_vars, th, out)

\* A line that is not a record line: the variables are looked for in it, and
\* its fields are made label fields when it carries the label marker. Both go
\* to the node of the last record; with no record yet, nd is None and
\* nd.m_idx raises AttributeError.
ParseTextLine ==
    /\ pc = "parse"
    /\ lines # <<>>
    /\ ~IsRecordLine(Head(lines))
    /\ LET line == StrStrip(Head(lines).text)
           ps == opts.define_var
           matches == \E i \in DOMAIN ps : search(ps[i], line).matched
           labelled == StrIn(opts.cnode_label_recid, line)
       IN IF m_list = <<>> /\ (matches \/ labelled)
          THEN /\ pc' = "crash"
               /\ err' = "AttributeError"
               /\ UNCHANGED <<lines, node, m_vars_usage>>
          ELSE IF m_list = <<>>
          THEN /\ lines' = Tail(lines)
               /\ UNCHANGED <<pc, err, node, m_vars_usage>>
          ELSE LET cid == Last(m_list)
                   scanned == ScanVars(ps, line, cid,
                                  [m_vars |-> node[cid].m_vars,
                                   usage |-> m_vars_usage])
                   extra == IF labelled
                            THEN LabelFields(Tail(StrSplit(line, "|")), ps,
                                             scanned.m_vars,
                                             opts.cnode_label_maxwidth,
                                             node[cid].m_extra)
                            ELSE node[cid].m_extra
               IN /\ node' = [node EXCEPT ![cid].m_vars = scanned.m_vars,
                                          ![cid].m_extra = extra]
                  /\ m_vars_usage' = scanned.usage
                  /\ lines' = Tail(lines)
                  /\ UNCHANGED <<pc, err>>
    /\ UNCHANGED <<opts, m_list, m_map, m_list_bydate, dot, log>>

\* The variables of the -D options, the texts of the lines between the
\* records, and the fields of a label line.
LabelMarker == "@@@git2dot-label@@@:"

DefineVars ==
    LET A == [var |-> "@A@", reg |-> "A: "]
        B == [var |-> "@B@", reg |-> "B: "]
    IN { <<>>, << A >>, << A, B >> }

BodyTexts == {"    A: 1", "A: 2", "B: 3", "subject"}

FieldTexts == {"x", "@A@", "p@A@q", "@A@@B@", "say \"hi\""}

RECURSIVE SeqsUpTo(_, _)
SeqsUpTo(S, k) ==
    IF k = 0 THEN { <<>> }
    ELSE LET shorter == SeqsUpTo(S, k - 1)
         IN shorter \cup {Append(q, e) : q \in shorter, e \in S}

RECURSIVE Fields(_)
Fields(flds) == IF flds = <<>> THEN "" ELSE "|" \o Head(flds) \o Fields(Tail(flds))

LabelOpts ==
    {Options(DEFAULT_RANGE, <<>>, <<>>, FALSE, "none")
        @@ [define_var |-> dv, cnode_label_recid |-> LabelMarker,
            cnode_label_maxwidth |-> th] :
        dv \in DefineVars, th \in {0, 4, 32}}

LabelLines ==
    {rec \o [i \in DOMAIN body |-> [text |-> body[i]]]
         \o << [text |-> LabelMarker \o Fields(flds)] >> :
        rec \in { <<>>, << [cid |-> 1, pids |-> <<>>, refs |-> <<>>,
                            date |-> StampTable[1]] >> },
        body \in SeqsUpTo(BodyTexts, MaxBodyLines),
        flds \in SeqsUpTo(FieldTexts, MaxLabelFields)}

LabelInit ==
    /\ pc = "parse"
    /\ err = ""
    /\ opts \in LabelOpts
    /\ lines \in LabelLines
    /\ m_list = <<>>
    /\ m_map = EmptyMap
    /\ node = EmptyMap
    /\ m_list_bydate = <<>>
    /\ m_vars_usage = <<>>
    /\ dot = <<>>
    /\ log = <<>>

LabelNext == ParseTextLine \/ RefsNext

LabelSpec == LabelInit /\ [][LabelNext]_vars

----------------------------------------------------------------------------
(* Properties *)

InStore(cid) == cid \in DOMAIN m_map /\ m_map[cid] \in Range(m_list)

Nodes == Range(m_list)

ParentsOf(n) == Range(node[n].m_parents)

ChildrenOf(n) == Range(node[n].m_children)

\* The nodes that list m as a parent.
ListedBy(m) == {n \in Nodes : node[m].m_cid \in ParentsOf(n)}

DatePassRan == Logged("pruning parents")

ChoicePassDone == Logged("keeping")

ChildrenDerived == Logged("found commit nodes")

SquashDone == opts.squash /\ pc \in {"sort", "gendot", "done", "squashed_again"}

\* C1: once the date pass has run, every parent id of every node in the
\* store is the id of a node in the store.
C1_NoDanglingParentAfterDatePass ==
    DatePassRan => \A n \in Nodes : \A p \in ParentsOf(n) : InStore(p)

\* C1 witness: the date pass has just removed a reference.
C1_Witness ==
    /\ pc = "prune_by_choice"
    /\ \E i \in 1..Len(log) :
          log[i].msg = "pruned parent node references" /\ log[i].n > 0

\* C2: once the children are derived, the children of every node are the
\* nodes that list it as a parent, and squash leaves it so.
C2_ChildrenMirrorParents ==
    ChildrenDerived => \A m \in Nodes : ChildrenOf(m) = ListedBy(m)

\* C2 witness: squash has stamped a chain in a store with children.
C2_Witness ==
    /\ pc = "sort"
    /\ \E n \in Nodes : node[n].m_chain_size > 0
    /\ \E m \in Nodes : Cardinality(ChildrenOf(m)) = 2

\* C3: after the choice pass the nodes left are closed under the parent
\* relation.
C3_ChoiceClosedUnderParents ==
    (ChoiceRequested /\ ChoicePassDone) =>
        \A n \in Nodes : \A p \in ParentsOf(n) : InStore(p)

\* C3 witness: the choice pass has deleted a node and left one with a parent.
C3_Witness ==
    /\ pc = "children"
    /\ Logged("remaining")
    /\ \E n \in Nodes : Len(node[n].m_parents) > 0

\* The maximal run of squashable nodes that holds n: the squashable nodes
\* joined to n by parent links between squashable nodes.
Squashable == {n \in Nodes : is_squashable(node, n)}

RECURSIVE RunFrom(_)
RunFrom(R) ==
    LET more == {n \in Squashable :
                    \E r \in R : n \in ParentsOf(r) \/ r \in ParentsOf(n)}
    IN IF more \subseteq R THEN R ELSE RunFrom(R \cup more)

RunOf(n) == RunFrom({n})

\* The first node of a run (its parent is not in the run) and the last one
\* (none of its children is).
RunFirst(R) == CHOOSE h \in R : ParentsOf(h) \cap R = {}

RunLast(R) == CHOOSE t \in R : ChildrenOf(t) \cap R = {}

Unstamped(n) ==
    /\ node[n].m_chain_head = None
    /\ node[n].m_chain_tail = None
    /\ node[n].m_chain_size = UnsetChainSize

StampedAs(n, head, tail, size) ==
    /\ node[n].m_chain_head = head
    /\ node[n].m_chain_tail = tail
    /\ node[n].m_chain_size = size

Stamps == [n \in Nodes |->
             << node[n].m_chain_head, node[n].m_chain_tail, node[n].m_chain_size >>]

\* C5: a second run of squash leaves every node's head, tail and size as the
\* first run set them.
C5_SquashIdempotent ==
    [][(pc = "sort" /\ pc' = "squashed_again") => Stamps' = Stamps]_vars

\* C5 witness: squash has run twice on a store with a stamped chain.
C5_Witness ==
    /\ pc = "squashed_again"
    /\ \E n \in Nodes : node[n].m_chain_size > 0

----------------------------------------------------------------------------

GranularityOf(g) == CHOOSE i \in 1..Len(attrs) : attrs[i] = g

\* a is strictly earlier than b, through the field g.
EarlierAt(g, a, b) ==
    \E i \in 1..GranularityOf(g) :
        /\ \A j \in 1..(i - 1) : node[a].m_dts[attrs[j]] = node[b].m_dts[attrs[j]]
        /\ node[a].m_dts[attrs[i]] < node[b].m_dts[attrs[i]]

RECURSIVE ReachedFrom(_, _)
ReachedFrom(S, pairs) ==
    LET more == {e[2] : e \in {x \in pairs : x[1] \in S}}
    IN IF more \subseteq S THEN S ELSE ReachedFrom(S \cup more, pairs)

\* The emitted pairs lead from a to b.
PlacedBefore(pairs, a, b) ==
    \E e \in pairs : e[1] = a /\ b \in ReachedFrom({e[2]}, pairs)

\* C6: with an alignment granularity, the emitted pairs lead from a to b for
\* any two visible nodes a, b with a strictly earlier than b at the
\* granularity.
C6_AlignmentMonotone ==
    (pc = "done" /\ opts.align_by_date # "none") =>
        \A a, b \in {n \in Nodes : ~is_squashed(node, n)} :
            EarlierAt(opts.align_by_date, a, b) =>
                PlacedBefore(Range(dot[1].pairs), node[a].m_cid, node[b].m_cid)

----------------------------------------------------------------------------

\* The store is one chain of commits without refs, each the only parent of
\* the next, and the last one without a child.
LinearChain ==
    /\ Len(m_list) >= 2
    /\ \A n \in Nodes :
          /\ Len(node[n].m_branches) = 0 /\ Len(node[n].m_tags) = 0
          /\ Len(node[n].m_parents) <= 1
          /\ Cardinality(ListedBy(n)) <= 1
          /\ \A p \in ParentsOf(n) : InStore(p)
    /\ Cardinality({n \in Nodes : Len(node[n].m_parents) = 0}) = 1

ChainFirst == CHOOSE n \in Nodes : Len(node[n].m_parents) = 0

ChainLast == CHOOSE n \in Nodes : ListedBy(n) = {}

\* C7: with squash, a history that is one linear chain of commits without
\* refs runs to the end, every commit stamped with the first commit, the last
\* commit and the number of commits less one, and the graph has exactly one
\* squash edge, from the first to the last commit, with that label.
C7_LinearChainSquashed ==
    (LinearChain /\ opts.squash /\ ChildrenDerived) =>
        /\ pc # "crash"
        /\ pc \in {"sort", "gendot", "done"} =>
              \A n \in Nodes :
                  StampedAs(n, ChainFirst, ChainLast, Len(m_list) - 1)
        /\ pc = "done" =>
              {e \in Range(dot[1].edges) : e.kind = "sedge"}
                 = {Edge(node[ChainFirst].m_cid, node[ChainLast].m_cid, "sedge",
                         Len(m_list) - 1)}

\* C8: after the choice pass and the derivation of the children, the
\* children of every node left are nodes of the store, and are the nodes
\* left that list it as a parent.
C8_ChildrenOfSurvivors ==
    (ChoiceRequested /\ ChoicePassDone /\ ChildrenDerived) =>
        \A m \in Nodes :
            /\ \A c \in ChildrenOf(m) : c \in DOMAIN node /\ InStore(node[c].m_cid)
            /\ ChildrenOf(m) = {n \in Nodes : InStore(n) /\ m \in ParentsOf(n)}

\* C8 witness: the choice pass has deleted a node, and a node left has a
\* child.
C8_Witness ==
    /\ pc = "squash"
    /\ Logged("remaining")
    /\ \E m \in Nodes : Len(node[m].m_children) > 0

\* C9: with branch or tag names chosen, the run does not end in an uncaught
\* exception once the choice pass is over, whether or not a name matched.
C9_UnmatchedChoiceNonFatal ==
    (ChoiceRequested /\ ChoicePassDone) => pc # "crash"

\* C10: once a fatal condition is logged the run has ended there: no later
\* stage has run or runs, and there is no graph.
C10_FatalParseEndsRun ==
    (\E i \in 1..Len(log) : log[i].level = "fatal") =>
        /\ pc = "exit"
        /\ Last(log).level = "fatal"
        /\ \A i \in 1..(Len(log) - 1) : log[i].level # "fatal"
        /\ dot = <<>>
        /\ m_list_bydate = <<>>
        /\ \A n \in Nodes : node[n].m_children = <<>> /\ Unstamped(n)
        /\ ~DatePassRan /\ ~ChoicePassDone /\ ~ChildrenDerived
        /\ ~ENABLED Next

\* C10 witness: a record with a bad date, after records that parsed.
C10_Witness ==
    /\ pc = "exit"
    /\ Logged("unrecognized date format")
    /\ Len(m_list) > 0

----------------------------------------------------------------------------

\* C11: an invocation shares no state with an earlier one: when main is
\* called again, the registries it starts from are those of a fresh process,
\* empty, so that the graph it builds comes from its own input only.
C11_InvocationStartsFresh ==
    [][(pc = "done" /\ pc' = "parse") =>
          (m_list' = <<>> /\ m_map' = EmptyMap /\ m_list_bydate' = <<>>)]_vars

----------------------------------------------------------------------------

\* The ids of the nodes in the store.
StoredIds == {node[n].m_cid : n \in Nodes}

\* ps without the ids that are not in the store, in the order of ps.
WithoutAbsent(ps) ==
    LET Stored(cid) == cid \in StoredIds IN SelectSeq(ps, Stored)

\* C12: the date pass deletes no node and changes nothing of a node but its
\* parent list, which becomes the old list without the ids absent from the
\* store, in the old order; the count it reports is the number of
\* references removed.
C12_DatePassRemovesOnlyEdges ==
    [][(pc = "prune_by_date" /\ pc' = "prune_by_choice" /\ DateRestricted) =>
          /\ m_list' = m_list
          /\ m_map' = m_map
          /\ DOMAIN node' = DOMAIN node
          /\ \A n \in DOMAIN node :
                /\ node'[n] = [node[n] EXCEPT !.m_parents = node'[n].m_parents]
                /\ node'[n].m_parents = WithoutAbsent(node[n].m_parents)
          /\ Last(log').msg = "pruned parent node references"
          /\ Last(log').n =
                SumSeq([i \in 1..Len(m_list) |->
                          Len(node[m_list[i]].m_parents)
                            - Len(node'[m_list[i]].m_parents)])]_vars

\* C12 witness: the date pass has removed a reference from a node that keeps
\* another parent.
C12_Witness ==
    /\ pc = "prune_by_choice"
    /\ \E i \in 1..Len(log) :
          log[i].msg = "pruned parent node references" /\ log[i].n > 0
    /\ \E n \in Nodes : Len(node[n].m_parents) > 0

----------------------------------------------------------------------------

\* C13: at the end of every stage the index of every node is its position in
\* the node list (so the indexes are 0..N-1), and the id map takes the id of
\* every node to the node at that position, and holds nothing else.
C13_IndexIsPosition ==
    /\ \A i \in 1..Len(m_list) :
          /\ node[m_list[i]].m_idx = i - 1
          /\ node[m_list[i]].m_cid \in DOMAIN m_map
          /\ m_map[node[m_list[i]].m_cid] = m_list[i]
    /\ {node[n].m_idx : n \in Nodes} = 0..(Len(m_list) - 1)
    /\ DOMAIN m_map = StoredIds

\* C13 witness: the choice pass has deleted the first node of the list, and
\* the two nodes behind it have moved up.
C13_Witness ==
    /\ pc = "children"
    /\ Logged("remaining")
    /\ m_list = << 2, 1 >>

----------------------------------------------------------------------------

\* The entries of a decoration: the text without the whitespace around it
\* and without one pair of parentheses around it, cut at the commas, each
\* piece without the whitespace around it.
EntriesOf(text) ==
    LET refs == strip(text)
        inner == IF Len(refs) >= 2 /\ Head(refs) = "(" /\ Last(refs) = ")"
                 THEN SubSeq(refs, 2, Len(refs) - 1)
                 ELSE refs
        pieces == split(inner, << "," >>)
    IN IF refs = <<>> THEN <<>> ELSE [i \in 1..Len(pieces) |-> strip(pieces[i])]

IsTagEntry(e) == Contains(e, TagMarker)

\* The branch name of an entry that is not a tag: what follows the arrow, or
\* the entry.
BranchNameOf(e) ==
    IF Contains(e, Arrow)
    THEN Join(SubSeq(e, Find(e, Arrow) + Len(Arrow), Len(e)))
    ELSE Join(e)

ExampleDecoration ==
    << "(", "tag:", " ", "v1.0", ",", " ", "origin/main", ")" >>

\* C14: parsing a record puts every entry of its decoration in exactly one of
\* the two ref lists of the node: the entries with the tag marker are its
\* tags, as they stand, and the other entries give its branches, an entry
\* with an arrow by its right-hand side; "(tag: v1.0, origin/main)" gives the
\* tags "tag: v1.0" and the branches "origin/main".
C14_RefsClassified ==
    [][(pc = "parse" /\ lines # <<>> /\ lines' = Tail(lines)) =>
          LET text == Head(lines).refs
              es == EntriesOf(text)
              nd == node'[Head(lines).cid]
              NotTag(e) == ~IsTagEntry(e)
              tagged == SelectSeq(es, IsTagEntry)
              others == SelectSeq(es, NotTag)
          IN /\ Len(nd.m_tags) + Len(nd.m_branches) = Len(es)
             /\ nd.m_tags = [i \in 1..Len(tagged) |-> Join(tagged[i])]
             /\ nd.m_branches = [i \in 1..Len(others) |-> BranchNameOf(others[i])]
             /\ text = ExampleDecoration =>
                   /\ nd.m_tags = << "tag: v1.0" >>
                   /\ nd.m_branches = << "origin/main" >>]_vars

\* C14 witness: a record with a tag and a branch behind an arrow is parsed.
C14_Witness ==
    /\ lines = <<>>
    /\ pc = "parse"
    /\ \E n \in Nodes :
          node[n].m_tags = << "tag: v1.0" >> /\ node[n].m_branches = << "main" >>

----------------------------------------------------------------------------

\* The nodes with a chosen branch name among their branches or a chosen tag
\* name among their tags.
ChosenSeeds ==
    {n \in Nodes :
        \/ Range(opts.choose_branch) \cap Range(node[n].m_branches) # {}
        \/ Range(opts.choose_tag) \cap Range(node[n].m_tags) # {}}

\* S and every node reached from S over parent edges.
RECURSIVE AncestorClosure(_)
AncestorClosure(S) ==
    LET more == {n \in Nodes : \E s \in S : node[n].m_cid \in ParentsOf(s)}
    IN IF more \subseteq S THEN S ELSE AncestorClosure(S \cup more)

\* C15: when the choice pass deletes a node, the nodes left are the seeds and
\* the nodes reached from a seed over parent edges, in their old order; every
\* other node is gone from the node list and from the id map.
C15_SurvivorsAreAncestorClosure ==
    [][(pc = "prune_by_choice" /\ pc' = "children"
          /\ Len(m_list') < Len(m_list)) =>
          LET keep == AncestorClosure(ChosenSeeds)
              Kept(n) == n \in keep
          IN /\ m_list' = SelectSeq(m_list, Kept)
             /\ DOMAIN m_map' = {node[n].m_cid : n \in keep}
             /\ \A c \in DOMAIN m_map' : m_map'[c] = m_map[c]
             /\ DOMAIN node' = keep]_vars

\* C15 witness: the choice pass has deleted a node and kept a node that has
\* no ref, an ancestor of a seed.
C15_Witness ==
    /\ pc = "children"
    /\ Logged("remaining")
    /\ \E n \in Nodes : Len(node[n].m_branches) = 0 /\ Len(node[n].m_tags) = 0

----------------------------------------------------------------------------

\* C16: is_squashable is true of a node exactly when the node has at most one
\* parent, exactly one child, and no branch and no tag.
C16_SquashableIffOneChild ==
    (pc = "squash" /\ opts.squash) =>
        \A n \in Nodes :
            is_squashable(node, n) <=>
                /\ Len(node[n].m_parents) <= 1
                /\ Len(node[n].m_children) = 1
                /\ Len(node[n].m_branches) = 0
                /\ Len(node[n].m_tags) = 0

----------------------------------------------------------------------------

VertexIds == {dot[1].vertices[i].cid : i \in 1..Len(dot[1].vertices)}

\* The squash edges of the graph, in the order gendot wrote them.
SquashEdges ==
    LET IsSedge(e) == e.kind = "sedge" IN SelectSeq(dot[1].edges, IsSedge)

\* The stamped chains: head, tail and the size stamped on the head.
StampedChains ==
    {<< node[n].m_chain_head, node[n].m_chain_tail,
        node[node[n].m_chain_head].m_chain_size >> :
        n \in {x \in Nodes : node[x].m_chain_size > 0}}

\* C17: after squash a node is hidden exactly when its chain-size is positive
\* and it is neither the head nor the tail of its chain; the head and the
\* tail of every stamped chain are drawn, and the graph has exactly one squash
\* edge for every stamped chain, from its head to its tail, labeled with the
\* chain-size of the head.
C17_SquashedIsInterior ==
    (pc = "done" /\ opts.squash) =>
        /\ \A n \in Nodes :
              /\ node[n].m_cid \notin VertexIds <=>
                    /\ node[n].m_chain_size > 0
                    /\ node[n].m_chain_head # n
                    /\ node[n].m_chain_tail # n
              /\ is_squashed(node, n) <=> node[n].m_cid \notin VertexIds
        /\ \A c \in StampedChains :
              {node[c[1]].m_cid, node[c[2]].m_cid} \subseteq VertexIds
        /\ Range(SquashEdges) =
              {Edge(node[c[1]].m_cid, node[c[2]].m_cid, "sedge", c[3]) :
                  c \in StampedChains}
        /\ Len(SquashEdges) = Cardinality(StampedChains)

\* C17 witness: the graph of a store with a hidden node is written.
C17_Witness ==
    /\ pc = "done"
    /\ opts.squash
    /\ \E n \in Nodes : is_squashed(node, n)

----------------------------------------------------------------------------

\* The first field, from the year down to the granularity g, in which the
\* dates of a and b differ (0 when they are equal through g).
FirstDifference(g, a, b) ==
    LET diff == {i \in 1..GranularityOf(g) :
                    node[a].m_dts[attrs[i]] # node[b].m_dts[attrs[i]]}
    IN IF diff = {} THEN 0 ELSE CHOOSE i \in diff : \A j \in diff : i <= j

\* The pair of one step of the scan as claimed: cursor before current when
\* the cursor is smaller in the first field that differs, and no pair
\* otherwise.
ClaimedPair(g, nd, lnd) ==
    LET i == FirstDifference(g, lnd, nd)
    IN IF i > 0 /\ node[lnd].m_dts[attrs[i]] < node[nd].m_dts[attrs[i]]
       THEN << << node[lnd].m_cid, node[nd].m_cid >> >>
       ELSE <<>>

\* The pairs of the whole scan as claimed, with the cursor moving as in the
\* code: to the current node when the cursor's date is earlier.
RECURSIVE ClaimedScan(_, _, _, _)
ClaimedScan(g, cids, lnd, pairs) ==
    IF cids = <<>> THEN pairs
    ELSE LET nd == m_map[Head(cids)]
         IN IF is_squashed(node, nd) THEN ClaimedScan(g, Tail(cids), lnd, pairs)
            ELSE ClaimedScan(g, Tail(cids),
                             IF Instant(node[lnd].m_dts) < Instant(node[nd].m_dts)
                             THEN nd ELSE lnd,
                             pairs \o ClaimedPair(g, nd, lnd))

\* C18: in every step of the alignment scan a pair cursor -> current is
\* written exactly when the cursor is smaller than the current node in the
\* first field, from the year down to the granularity, in which they differ;
\* no pair when it is larger there or when they are equal through the
\* granularity.
C18_ScanEmitsIffCursorSmaller ==
    (pc = "done" /\ opts.align_by_date # "none") =>
        dot[1].pairs = ClaimedScan(opts.align_by_date, m_list_bydate,
                                   m_map[m_list_bydate[1]], <<>>)

----------------------------------------------------------------------------

\* The fields of a node that make the graph.
GraphFields(nd) ==
    << nd.m_cid, nd.m_idx, nd.m_parents, nd.m_children, nd.m_branches,
       nd.m_tags, nd.m_dts >>

\* C19: when the chosen names select every node, the choice pass leaves the
\* node list, the id map and the index, parents, children and refs of every
\* node as they were, and a pass that completes leaves every node as it was.
C19_SelectAllChangesNothing ==
    [][(pc = "prune_by_choice" /\ pc' # pc /\ ChoiceRequested
          /\ AncestorClosure(ChosenSeeds) = Nodes) =>
          /\ m_list' = m_list
          /\ m_map' = m_map
          /\ DOMAIN node' = DOMAIN node
          /\ \A n \in DOMAIN node : GraphFields(node'[n]) = GraphFields(node[n])
          /\ pc' = "children" => node' = node]_vars

\* C19 witness: the choice pass found nothing to prune in a store of nodes
\* joined by a parent edge.
C19_Witness ==
    /\ pc = "children"
    /\ Logged("nothing to prune")
    /\ \E n \in Nodes : Len(node[n].m_parents) > 0

----------------------------------------------------------------------------

\* The messages that open the stages, in the order of the stages.
StageMessages ==
    << "pruning parents", "pruning graph based on choices", "updating children",
       "squashing chains", "sorting by date", "defining edges" >>

StageOf(msg) == CHOOSE i \in 1..Len(StageMessages) : StageMessages[i] = msg

\* The stages that have run, in the order in which they ran.
StagesRun ==
    LET IsStage(m) == m.msg \in Range(StageMessages)
        ms == SelectSeq(log, IsStage)
    IN [i \in 1..Len(ms) |-> StageOf(ms[i].msg)]

PcOrder ==
    << "parse", "prune_by_date", "prune_by_choice", "children", "squash",
       "sort", "gendot", "done" >>

PcAt(p) == CHOOSE i \in 1..Len(PcOrder) : PcOrder[i] = p

\* C20: the stages run in the order date pass, choice pass, children, squash,
\* sort, output, each at most once; while the records are parsed and during
\* both pruning passes no node has a child or a stamp; every stage behind the
\* position of the run has run, the conditional ones when their option asks
\* for them.
C20_StagesInOrder ==
    /\ \A i, j \in 1..Len(StagesRun) : i < j => StagesRun[i] < StagesRun[j]
    /\ pc \in {"parse", "prune_by_date", "prune_by_choice"} =>
          /\ StagesRun \in {<<>>, << 1 >>}
          /\ \A n \in Nodes : node[n].m_children = <<>> /\ Unstamped(n)
    /\ pc \in Range(PcOrder) =>
          /\ PcAt(pc) > PcAt("prune_by_date") =>
                (DateRestricted <=> 1 \in Range(StagesRun))
          /\ PcAt(pc) > PcAt("prune_by_choice") =>
                (ChoiceRequested <=> 2 \in Range(StagesRun))
          /\ PcAt(pc) > PcAt("children") <=> 3 \in Range(StagesRun)
          /\ PcAt(pc) > PcAt("squash") =>
                (opts.squash <=> 4 \in Range(StagesRun))
          /\ PcAt(pc) > PcAt("sort") <=> 5 \in Range(StagesRun)
          /\ PcAt(pc) > PcAt("gendot") <=> 6 \in Range(StagesRun)

\* C20 witness: a run with a date range, a chosen branch and squash has
\* written its graph.
C20_Witness ==
    /\ pc = "done"
    /\ Len(StagesRun) = Len(StageMessages)

-----------------------------------------------------------------------------
(* Label lines *)

\* The next line carries the label marker and a record came before it.
AtLabelLine ==
    /\ pc = "parse"
    /\ lines # <<>>
    /\ ~IsRecordLine(Head(lines))
    /\ StrIn(opts.cnode_label_recid, Head(lines).text)
    /\ m_list # <<>>

\* The fields of that line after the marker.
LabelLineFields == Tail(StrSplit(StrStrip(Head(lines).text), "|"))

\* A configured variable token occurs in the field.
HasToken(fld) ==
    \E i \in DOMAIN opts.define_var : StrIn(opts.define_var[i].var, fld)

\* The label fields of the node of the last record.
LabelsOf(nodes) == nodes[Last(m_list)].m_extra

\* C21: a label line with n fields after the marker appends exactly n label
\* fields to the current node, in input order, one per input field; a field
\* with no variable token is appended as it is (cut to the width and with
\* its quotes escaped, as every appended field is).
C21_OneLabelPerField ==
    [][AtLabelLine =>
          LET flds == LabelLineFields
              before == Len(LabelsOf(node))
              after == LabelsOf(node')
          IN /\ Len(after) = before + Len(flds)
             /\ \A i \in DOMAIN flds :
                   ~HasToken(flds[i]) =>
                       << after[before + i] >>
                           = setval(<<>>, opts.cnode_label_maxwidth, flds[i])]_vars

-----------------------------------------------------------------------------
(* Squash on a consistent store *)

\* No node is reached from its own parents over parent edges.
Acyclic ==
    \A n \in Nodes :
        n \notin AncestorClosure({m \in Nodes : node[m].m_cid \in ParentsOf(n)})

\* Node.squash is about to run on an acyclic store in which every parent id
\* is stored and the children are the nodes that list the node as a parent.
SquashReady ==
    /\ pc = "squash"
    /\ opts.squash
    /\ Acyclic
    /\ \A n \in Nodes : \A q \in ParentsOf(n) : InStore(q)
    /\ \A m \in Nodes : ChildrenOf(m) = ListedBy(m)

\* C22: Node.squash ends without an error on every such store, a store in
\* which a run of simple nodes ends at a node without children included.
C22_SquashEndsWithoutError ==
    [][SquashReady => pc' # "crash"]_vars

-----------------------------------------------------------------------------
(* Dangling parent references *)

\* Some node of the store lists a parent id that is not the id of a node of
\* the store.
DanglingParent == \E n \in Nodes : \E q \in ParentsOf(n) : ~InStore(q)

\* C23: no store with a dangling parent reference gets past the derivation of
\* the children: while some parent id names no stored node the run is at or
\* before that stage, or has ended there or earlier, and there is no graph.
C23_NoDanglingParentPastChildren ==
    DanglingParent =>
        /\ pc \notin {"squash", "sort", "gendot", "done"}
        /\ ~ChildrenDerived
        /\ m_list_bydate = <<>>
        /\ dot = <<>>

\* C23 witness: with no date restriction the date pass was skipped, a record
\* lists a parent that is not in the store, and the derivation of the
\* children has ended the run with KeyError.
C23_Witness ==
    /\ ~DateRestricted
    /\ ~DatePassRan
    /\ DanglingParent
    /\ Logged("updating children")
    /\ pc = "crash"
    /\ err = "KeyError"

-----------------------------------------------------------------------------
(* The cursor of the alignment scan *)

\* The node with the id cid is hidden by squash.
HiddenId(cid) == is_squashed(node, m_map[cid])

\* C24: the cursor of the alignment scan is never a squashed node, so both
\* ends of every pair written are nodes that are drawn, also when the node
\* with the earliest date is inside a squashed chain.
C24_PairsJoinVisibleNodes ==
    (pc = "done" /\ opts.align_by_date # "none") =>
        \A i \in 1..Len(dot[1].pairs) :
            ~HiddenId(dot[1].pairs[i][1]) /\ ~HiddenId(dot[1].pairs[i][2])

-----------------------------------------------------------------------------
(* The summary of gendot *)

\* The vertices of the graph of the given kinds.
VerticesOf(kinds) ==
    {i \in 1..Len(dot[1].vertices) : dot[1].vertices[i].kind \in kinds}

\* C25: in the summary of the graph, with squash or without, total_commits
\* is the number of nodes of the store: one for every commit vertex and
\* merge vertex, nothing for the vertex of a chain head or tail, and the
\* chain-size for every squash edge; total_graph_commit_nodes is the number
\* of nodes that are not squashed, each of them a vertex.
C25_SummaryCountsEveryNode ==
    pc = "done" =>
        LET sm == dot[1].summary
            sizes == [i \in 1..Len(SquashEdges) |-> SquashEdges[i].label]
        IN /\ sm.total_commits = Len(m_list)
           /\ sm.total_commits
                 = Cardinality(VerticesOf({"cnode", "mnode"})) + SumSeq(sizes)
           /\ sm.total_graph_commit_nodes
                 = Cardinality({n \in Nodes : ~is_squashed(node, n)})
           /\ sm.total_graph_commit_nodes = Len(dot[1].vertices)

\* C25 witness: a graph of a store with a squashed node, its chain drawn as
\* a head, a tail and one squash edge, beside a commit vertex.
C25_Witness ==
    /\ pc = "done"
    /\ opts.squash
    /\ \E n \in Nodes : is_squashed(node, n)
    /\ Len(SquashEdges) = 1
    /\ VerticesOf({"snode"}) # {}
    /\ VerticesOf({"cnode"}) # {}

-----------------------------------------------------------------------------
(* The edges of the graph and the squashed nodes *)

\* The nodes stamped with the chain of n.
ChainOf(n) ==
    {m \in Nodes : /\ node[m].m_chain_size > 0
                   /\ node[m].m_chain_head = node[n].m_chain_head
                   /\ node[m].m_chain_tail = node[n].m_chain_tail}

\* C26: with squash, both ends of every parent edge and of every squash edge
\* of the graph are vertices of the graph and none is a squashed node; and
\* every squashed node has no refs, exactly one parent and exactly one child,
\* both of them nodes of its own chain.
C26_EdgesJoinVisibleNodes ==
    (pc = "done" /\ opts.squash) =>
        /\ \A i \in 1..Len(dot[1].edges) :
              LET e == dot[1].edges[i]
              IN /\ {e.src, e.dst} \subseteq VertexIds
                 /\ InStore(e.src) /\ InStore(e.dst)
                 /\ ~HiddenId(e.src) /\ ~HiddenId(e.dst)
        /\ \A n \in Nodes :
              is_squashed(node, n) =>
                 /\ node[n].m_branches = <<>> /\ node[n].m_tags = <<>>
                 /\ Len(node[n].m_parents) = 1
                 /\ Len(node[n].m_children) = 1
                 /\ m_map[node[n].m_parents[1]] \in ChainOf(n)
                 /\ node[n].m_children[1] \in ChainOf(n)

\* C26 witness: the graph of a store with a squashed node has the squash
\* edge of its chain and a parent edge from the tail of the chain to the
\* node after it.
C26_Witness ==
    /\ pc = "done"
    /\ opts.squash
    /\ \E n \in Nodes :
          /\ is_squashed(node, n)
          /\ \E i, j \in 1..Len(dot[1].edges) :
                /\ dot[1].edges[i].kind = "sedge"
                /\ dot[1].edges[i].dst = node[node[n].m_chain_tail].m_cid
                /\ dot[1].edges[j].kind = "pedge"
                /\ dot[1].edges[j].src = node[node[n].m_chain_tail].m_cid

====
